---------------------------- MODULE Spec2Model ----------------------------
(***************************************************************************)
(* Model of rocket-design-calculator-single-stage.py.                      *)
(*                                                                         *)
(* The program is a prompt-driven calculator on Python floats.  A float is *)
(* modelled as a binary floating-point number with a Prec-bit significand, *)
(* round-to-nearest-even, infinities and NaN, and the exponent range of an *)
(* IEEE double.  Prec is a bound of the model (a double has 53 bits; the   *)
(* model checker's integers have 32): every rounding phenomenon of the     *)
(* program - an inexact 1/x, a product x*(1/x) that is 1 or one unit below *)
(* it, absorption of a small addend - occurs at every precision.  Signed   *)
(* zeros and gradual underflow are not modelled.                           *)
(***************************************************************************)
EXTENDS Integers, Sequences, FiniteSets, TLC

\* Significand width of the modelled float, in bits.
Prec == 14
\* A float at or above 2^EMax overflows to infinity (sys.float_info.max_exp).
EMax == 1024
\* A float below 2^EMin underflows to zero (the smallest subnormal double).
EMin == -1074
\* Cap on the number of rejected delta-v entries in one run.
MaxReprompts == 2

---------------------------------------------------------------------------
(* Float arithmetic                                                        *)

RECURSIVE Pow2(_)
Pow2(n) == IF n <= 0 THEN 1 ELSE 2 * Pow2(n - 1)

RECURSIVE Pow10(_)
Pow10(n) == IF n <= 0 THEN 1 ELSE 10 * Pow10(n - 1)

RECURSIVE BitLen(_)
BitLen(n) == IF n = 0 THEN 0 ELSE 1 + BitLen(n \div 2)

Abs(n) == IF n < 0 THEN -n ELSE n

Sgn(n) == IF n < 0 THEN -1 ELSE IF n = 0 THEN 0 ELSE 1

\* A finite float m * 2^e: m = 0 and e = 0, or 2^(Prec-1) <= |m| < 2^Prec.
Num(m, e) == [k |-> "num", m |-> m, e |-> e]
Zero == Num(0, 0)
\* s = 1 for +inf, s = -1 for -inf.
Inf(s) == [k |-> "inf", m |-> s, e |-> 0]
NaN == [k |-> "nan", m |-> 0, e |-> 0]

IsNum(a) == a.k = "num"
IsNaN(a) == a.k = "nan"
IsInf(a) == a.k = "inf"
IsZero(a) == a.k = "num" /\ a.m = 0

\* The finite float s * m * 2^e for a significand m of exactly Prec bits,
\* or what it overflows or underflows to.
Pack(s, m, e) ==
    IF e + Prec > EMax THEN Inf(s)
    ELSE IF e + Prec <= EMin THEN Zero
    ELSE Num(s * m, e)

\* A significand that rounding carried up to 2^Prec is renormalised.
Carry(s, q, e) ==
    IF q = Pow2(Prec) THEN Pack(s, Pow2(Prec - 1), e + 1) ELSE Pack(s, q, e)

\* q + r/(2 half) rounded to an integer: up when the remainder r is above
\* half, or is half and either the value has further nonzero bits (sticky)
\* or q is odd.
RoundUp(s, q, r, half, e, sticky) ==
    IF r > half \/ (r = half /\ (sticky = 1 \/ q % 2 = 1))
    THEN Carry(s, q + 1, e)
    ELSE Pack(s, q, e)

\* n has sh bits more than Prec.
RoundShift(s, n, e, sticky, sh) ==
    RoundUp(s, n \div Pow2(sh), n % Pow2(sh), Pow2(sh - 1), e + sh, sticky)

\* n has L bits.
RoundBits(s, n, e, sticky, L) ==
    IF L <= Prec THEN Pack(s, n * Pow2(Prec - L), e - (Prec - L))
    ELSE RoundShift(s, n, e, sticky, L - Prec)

\* The float nearest (ties to even) to s * (n + f) * 2^e, where n >= 0, s is
\* the sign and f is 0 when sticky = 0 and some fraction in (0, 1) when
\* sticky = 1.  With sticky = 1 the caller gives n at least Prec + 1 bits.
RoundTo(s, n, e, sticky) ==
    IF n = 0 THEN Zero ELSE RoundBits(s, n, e, sticky, BitLen(n))

\* int -> float conversion.
FromInt(n) == RoundTo(Sgn(n), Abs(n), 0, 0)

FNeg(a) == IF IsNaN(a) THEN NaN ELSE [a EXCEPT !.m = -a.m]

FAbs(a) == IF IsNaN(a) THEN NaN ELSE [a EXCEPT !.m = Abs(a.m)]

\* a * b
FMul(a, b) ==
    IF IsNaN(a) \/ IsNaN(b) THEN NaN
    ELSE IF IsInf(a) \/ IsInf(b)
         THEN IF a.m = 0 \/ b.m = 0 THEN NaN ELSE Inf(Sgn(a.m) * Sgn(b.m))
    ELSE RoundTo(Sgn(a.m) * Sgn(b.m), Abs(a.m) * Abs(b.m), a.e + b.e, 0)

\* The quotient of two nonzero significands: n is the dividend shifted left
\* by Prec + 1 bits, and a nonzero remainder is the sticky bit.
DivRound(s, n, d, e) == RoundTo(s, n \div d, e, IF n % d = 0 THEN 0 ELSE 1)

\* a / b for b # 0 (Python raises ZeroDivisionError before dividing by zero;
\* the callers test IsZero(b) first).
FDiv(a, b) ==
    IF IsNaN(a) \/ IsNaN(b) THEN NaN
    ELSE IF IsInf(a)
         THEN IF IsInf(b) THEN NaN ELSE Inf(Sgn(a.m) * (IF b.m < 0 THEN -1 ELSE 1))
    ELSE IF IsInf(b) \/ a.m = 0 THEN Zero
    ELSE DivRound(Sgn(a.m) * Sgn(b.m), Abs(a.m) * Pow2(Prec + 1), Abs(b.m),
                  a.e - b.e - (Prec + 1))

\* The sum of two nonzero finite floats, hi.e >= lo.e.  When lo lies below
\* a quarter of hi's last place it only decides on which side of hi the sum
\* lies.
AddAligned(hi, lo, d) ==
    IF d <= Prec + 1
    THEN RoundTo(Sgn(hi.m * Pow2(d) + lo.m), Abs(hi.m * Pow2(d) + lo.m), lo.e, 0)
    ELSE IF Sgn(hi.m) = Sgn(lo.m)
    THEN RoundTo(Sgn(hi.m), Abs(hi.m) * 4, hi.e - 2, 1)
    ELSE RoundTo(Sgn(hi.m), Abs(hi.m) * 4 - 1, hi.e - 2, 1)

\* a + b
FAdd(a, b) ==
    IF IsNaN(a) \/ IsNaN(b) THEN NaN
    ELSE IF IsInf(a)
         THEN IF IsInf(b) /\ b.m # a.m THEN NaN ELSE a
    ELSE IF IsInf(b) THEN b
    ELSE IF a.m = 0 THEN b
    ELSE IF b.m = 0 THEN a
    ELSE IF a.e >= b.e THEN AddAligned(a, b, a.e - b.e)
    ELSE AddAligned(b, a, b.e - a.e)

\* a - b
FSub(a, b) == FAdd(a, FNeg(b))

\* The order of the magnitudes of two values of the same nonzero sign.
CmpMag(a, b) ==
    IF IsInf(a) /\ IsInf(b) THEN 0
    ELSE IF IsInf(a) THEN 1
    ELSE IF IsInf(b) THEN -1
    ELSE IF a.e # b.e THEN (IF a.e > b.e THEN 1 ELSE -1)
    ELSE Sgn(Abs(a.m) - Abs(b.m))

\* -1, 0 or 1 as a < b, a = b or a > b; a and b are not NaN.
Cmp(a, b) ==
    IF Sgn(a.m) # Sgn(b.m) THEN (IF Sgn(a.m) < Sgn(b.m) THEN -1 ELSE 1)
    ELSE IF Sgn(a.m) = 0 THEN 0
    ELSE Sgn(a.m) * CmpMag(a, b)

\* a <= b, a < b, a == b: false when either side is NaN.
FLe(a, b) == ~IsNaN(a) /\ ~IsNaN(b) /\ Cmp(a, b) <= 0
FLt(a, b) == ~IsNaN(a) /\ ~IsNaN(b) /\ Cmp(a, b) < 0

One == FromInt(1)

\* The integer nearest to a finite float of magnitude below 2^(Prec-1)
\* (halves away from zero).
NearestInt(a) ==
    IF a.m = 0 THEN 0
    ELSE IF a.e >= 0 THEN a.m * Pow2(a.e)
    ELSE IF -a.e > Prec + 1 THEN 0
    ELSE Sgn(a.m) * ((Abs(a.m) + Pow2(-a.e - 1)) \div Pow2(-a.e))

\* The largest q in lo..hi with q * q <= n, given lo * lo <= n.
RECURSIVE ISqrt(_, _, _)
ISqrt(n, lo, hi) ==
    IF lo >= hi THEN lo
    ELSE IF ((lo + hi + 1) \div 2) * ((lo + hi + 1) \div 2) <= n
    THEN ISqrt(n, (lo + hi + 1) \div 2, hi)
    ELSE ISqrt(n, lo, ((lo + hi + 1) \div 2) - 1)

\* The root q of n = m * 2^s, rounded to nearest: up when n > (q + 1/2)^2.
SqrtRound(n, q, e) == RoundTo(1, IF n - q * q > q THEN q + 1 ELSE q, e, 0)

\* The significand is shifted by s, Prec or Prec - 1, to make the exponent
\* even and the root a Prec-bit integer.
SqrtShift(a, s) ==
    SqrtRound(a.m * Pow2(s), ISqrt(a.m * Pow2(s), Pow2(Prec - 1), Pow2(Prec) - 1),
              (a.e - s) \div 2)

\* math.sqrt(a) for a >= 0 or NaN, correctly rounded (the callers raise
\* ValueError for a negative argument).
FSqrt(a) ==
    IF ~IsNum(a) \/ a.m = 0 THEN a
    ELSE SqrtShift(a, IF (a.e - Prec) % 2 = 0 THEN Prec ELSE Prec - 1)

\* math.pi, and math.log(2) in three parts Ln2A + Ln2B + Ln2C of which the
\* first two have four significant bits (their small multiples are exact).
Pi == FDiv(FromInt(355), FromInt(113))
Ln2 == FDiv(FromInt(693147), FromInt(1000000))
Ln2A == FDiv(FromInt(11), FromInt(16))
Ln2B == FDiv(FromInt(11), FromInt(2048))
Ln2C == FDiv(FromInt(276087), FromInt(1000000000))

\* 1 + t/i * (1 + t/(i+1) * (... (1 + t/n))): the Taylor polynomial of exp.
RECURSIVE ExpHorner(_, _, _)
ExpHorner(t, i, n) ==
    IF i > n THEN One
    ELSE FAdd(One, FMul(FDiv(t, FromInt(i)), ExpHorner(t, i + 1, n)))

\* y * 2^k
Scale(y, k) == RoundTo(1, y.m, y.e + k, 0)

\* exp(x) = 2^k * exp(x - k ln 2), k the integer nearest to x / ln 2.
ExpReduced(x, k, kf) ==
    Scale(ExpHorner(FSub(FSub(FSub(x, FMul(kf, Ln2A)), FMul(kf, Ln2B)),
                         FMul(kf, Ln2C)), 1, 8), k)

ExpNearest(x, k) == ExpReduced(x, k, FromInt(k))

\* math.exp(x), with the series evaluated in float arithmetic: accurate to
\* a few units in the last place.  A finite x whose result overflows yields
\* Inf here; the caller raises OverflowError for it.
FExp(x) ==
    IF IsNaN(x) THEN NaN
    ELSE IF IsInf(x) THEN (IF x.m > 0 THEN x ELSE Zero)
    ELSE IF x.m # 0 /\ x.e + Prec > 11 THEN (IF x.m > 0 THEN Inf(1) ELSE Zero)
    ELSE ExpNearest(x, NearestInt(FDiv(x, Ln2)))

\* 1 - t/(i(i+1)) * (1 - t/((i+2)(i+3)) * ...), t = x^2: the Taylor
\* polynomial of cos.
RECURSIVE CosHorner(_, _, _)
CosHorner(t, i, n) ==
    IF i > n THEN One
    ELSE FSub(One, FMul(FDiv(t, FromInt(i * (i + 1))), CosHorner(t, i + 2, n)))

\* 2 pi in three parts, as Ln2 above.
TwoPiA == FromInt(6)
TwoPiB == FDiv(FromInt(9), FromInt(32))
TwoPiC == FDiv(FromInt(1935307), FromInt(1000000000))

CosSeries(a) == CosHorner(FMul(a, a), 1, 13)

\* cos(a) for 0 <= a <= pi: cos(a) = -cos(pi - a) beyond pi/2.
CosFolded(a) ==
    IF FLe(FMul(FromInt(2), a), Pi) THEN CosSeries(a)
    ELSE FNeg(CosSeries(FSub(Pi, a)))

\* cos(x) = cos(|x - k 2 pi|), k the integer nearest to x / (2 pi).
CosReduced(x, kf) ==
    CosFolded(FAbs(FSub(FSub(FSub(x, FMul(kf, TwoPiA)), FMul(kf, TwoPiB)),
                        FMul(kf, TwoPiC))))

\* math.cos(x) for a finite x or NaN (the callers raise ValueError for an
\* infinity), in float arithmetic: accurate to a few units in the last
\* place of 1.  Arguments of magnitude 2^11 and above are outside the
\* modelled range and are not reduced.
FCos(x) ==
    IF IsNaN(x) THEN NaN
    ELSE IF x.m # 0 /\ x.e + Prec > 11 THEN One
    ELSE CosReduced(x, FromInt(NearestInt(FDiv(x, FMul(FromInt(2), Pi)))))

\* math.radians(x): x * (pi / 180).
Radians(x) == FMul(x, FDiv(Pi, FromInt(180)))

---------------------------------------------------------------------------
(* Text entries and float(inp)                                             *)

\* A line typed at a prompt is a sequence of one-character strings.
DigitVal ==
    ("0" :> 0) @@ ("1" :> 1) @@ ("2" :> 2) @@ ("3" :> 3) @@ ("4" :> 4) @@
    ("5" :> 5) @@ ("6" :> 6) @@ ("7" :> 7) @@ ("8" :> 8) @@ ("9" :> 9)
IsDigit(c) == c \in DOMAIN DigitVal
IsPoint(c) == c = "."
IsSpace(c) == c \in {" ", "\t"}

RECURSIVE LStrip(_)
LStrip(s) == IF s # <<>> /\ IsSpace(Head(s)) THEN LStrip(Tail(s)) ELSE s

RECURSIVE RStrip(_)
RStrip(s) ==
    IF s # <<>> /\ IsSpace(s[Len(s)]) THEN RStrip(SubSeq(s, 1, Len(s) - 1)) ELSE s

\* str.strip()
Strip(s) == RStrip(LStrip(s))

\* The integer written by a sequence of digits.
RECURSIVE DigitsVal(_)
DigitsVal(s) ==
    IF s = <<>> THEN 0
    ELSE 10 * DigitsVal(SubSeq(s, 1, Len(s) - 1)) + DigitVal[s[Len(s)]]

\* The decimal n * 10^-k: correctly rounded when n and 10^k are
\* representable (every literal and entry of the model), and within one unit
\* in the last place otherwise.
Dec(n, k) == IF k = 0 THEN FromInt(n) ELSE FDiv(FromInt(n), FromInt(Pow10(k)))

\* The number of characters after the point.
FracLen(body) == Len(body) - (CHOOSE i \in 1..Len(body) : body[i] = ".")

\* [ok |-> FALSE] stands for ValueError.
Parsed(v) == [ok |-> TRUE, val |-> v]
Unparsable == [ok |-> FALSE, val |-> NaN]

ParseDecimal(sign, body, digits, points) ==
    IF digits = <<>> \/ Len(points) > 1 \/ Len(digits) + Len(points) # Len(body)
    THEN Unparsable
    ELSE Parsed(Dec(sign * DigitsVal(digits),
                    IF points = <<>> THEN 0 ELSE FracLen(body)))

ParseBody(sign, body) ==
    IF body = <<"i", "n", "f">> THEN Parsed(Inf(sign))
    ELSE IF body = <<"n", "a", "n">> THEN Parsed(NaN)
    ELSE ParseDecimal(sign, body, SelectSeq(body, IsDigit), SelectSeq(body, IsPoint))

ParseSigned(t) ==
    IF t # <<>> /\ Head(t) \in {"+", "-"}
    THEN ParseBody(IF Head(t) = "-" THEN -1 ELSE 1, Tail(t))
    ELSE ParseBody(1, t)

\* float(s).  The grammar modelled is optional blanks, an optional sign,
\* then inf, nan, or decimal digits with at most one point; exponent
\* notation and digit separators are not modelled.
ParseFloat(s) == ParseSigned(Strip(s))

---------------------------------------------------------------------------
(* The program                                                             *)

\* The value of a local that has not been assigned yet.
Unset == [k |-> "unset", m |-> 0, e |-> 0]

\* What evaluating an expression gives: a value, or the exception raised.
Ok(v) == [exc |-> "none", val |-> v]
Raise(x) == [exc |-> x, val |-> Unset]

\* a / b, math.cos(a), and math.sqrt and math.exp of the outcome r of their
\* argument, as Python evaluates them: an exception raised in the argument
\* goes through.
PyDiv(a, b) == IF IsZero(b) THEN Raise("ZeroDivisionError") ELSE Ok(FDiv(a, b))
PyCos(a) == IF IsInf(a) THEN Raise("ValueError") ELSE Ok(FCos(a))
PySqrt(r) ==
    IF r.exc # "none" THEN r
    ELSE IF FLt(r.val, Zero) THEN Raise("ValueError")
    ELSE Ok(FSqrt(r.val))
ExpChecked(a, y) == IF IsNum(a) /\ IsInf(y) THEN Raise("OverflowError") ELSE Ok(y)
PyExp(r) == IF r.exc # "none" THEN r ELSE ExpChecked(r.val, FExp(r.val))

\* get_float_input with the except clause left out of the picture: an
\* entry float() refuses comes back as not-a-number instead of the default.
get_float_input_uncaught(inp, default) ==
    IF Strip(inp) = <<>> THEN default
    ELSE IF ParseFloat(inp).ok THEN ParseFloat(inp).val ELSE NaN

\* Lines 9-12: the value of float(inp), or the default on ValueError.
OrDefault(parsed, default) == IF parsed.ok THEN parsed.val ELSE default

\* get_float_input(prompt, default) on the line inp read by input().
get_float_input(inp, default) ==
    IF Strip(inp) = <<>> THEN default ELSE OrDefault(ParseFloat(inp), default)

G == FDiv(FDiv(FromInt(66743), FromInt(Pow10(8))), FromInt(Pow10(7)))
M == FMul(FMul(FromInt(5972), FromInt(Pow10(9))),
          FMul(FromInt(Pow10(9)), FromInt(1000)))
R_E == 6371000
g0 == Dec(981, 2)

calculate_orbital_velocity(orbit_altitude) ==
    PySqrt(PyDiv(FMul(G, M), FAdd(FromInt(R_E), orbit_altitude)))

\* Line 30.
omega == FDiv(FMul(FromInt(2), Pi), FromInt(86400))

\* Line 34, given the outcome c of math.cos(latitude_rad).
BoostFor(c) ==
    IF c.exc # "none" THEN c ELSE Ok(FMul(FMul(omega, FromInt(R_E)), c.val))

calculate_rotational_boost(latitude_deg) == BoostFor(PyCos(Radians(latitude_deg)))

\* Line 45: the pair (mass_ratio, ve), given the outcome r of line 44.
MassRatioFor(r, ve) ==
    IF r.exc # "none" THEN r ELSE Ok([mass_ratio |-> r.val, ve |-> ve])

\* Lines 44-45.
MassRatioWith(delta_v, ve) == MassRatioFor(PyExp(PyDiv(delta_v, ve)), ve)

calculate_mass_ratio(delta_v, specific_impulse) ==
    MassRatioWith(delta_v, FMul(specific_impulse, g0))

\* Line 51.
Denominator(mass_ratio, structural_fraction) ==
    FSub(One, FMul(mass_ratio, structural_fraction))

\* The guard of line 52 written with < in place of <=.
TooHighStrict(denominator) == FLt(denominator, Zero)

\* Line 52: the configuration is signalled infeasible.
TooHigh(denominator) == FLe(denominator, Zero)

\* Line 56 without the payload term.
FuelMassGross(m0, m_structure, m_payload) == FSub(m0, m_structure)

\* Line 56.
FuelMass(m0, m_structure, m_payload) == FSub(FSub(m0, m_structure), m_payload)

\* The value None, and the triple (m0, m_structure, m_fuel).
None == [tag |-> "None"]
Triple(m0, m_structure, m_fuel) ==
    [tag |-> "tuple", m0 |-> m0, m_structure |-> m_structure, m_fuel |-> m_fuel]

\* Lines 56-58.
MassBreakdown(m0, m_structure, m_payload) ==
    Ok(Triple(m0, m_structure, FuelMass(m0, m_structure, m_payload)))

\* Lines 55-58, given the outcome r of the division on line 54.
MassesFor(r, structural_fraction, m_payload) ==
    IF r.exc # "none" THEN r
    ELSE MassBreakdown(r.val, FMul(structural_fraction, r.val), m_payload)

\* Lines 52-58.
TotalMassFor(m_payload, mass_ratio, structural_fraction, denominator) ==
    IF TooHigh(denominator) THEN Ok(None)
    ELSE MassesFor(PyDiv(FMul(mass_ratio, m_payload), denominator),
                   structural_fraction, m_payload)

calculate_total_mass(m_payload, mass_ratio, structural_fraction) ==
    TotalMassFor(m_payload, mass_ratio, structural_fraction,
                 Denominator(mass_ratio, structural_fraction))

\* Line 64 with a one per cent margin below the theoretical maximum.
find_max_structural_fraction_margin(mass_ratio) ==
    PyDiv(Dec(99, 2), mass_ratio)

find_max_structural_fraction(mass_ratio) == PyDiv(One, mass_ratio)

default_payload == Dec(10, 1)
default_specific_impulse == Dec(3500, 1)
default_launch_latitude == Dec(450, 1)
default_orbit_altitude == Dec(2000000, 1)
default_structural_fraction == Dec(10, 2)
default_delta_v_budget == FromInt(9500)

\* Line 88 with the endpoints excluded.
DeltaVInRangeOpen(x) == FLt(Dec(93, 1), x) /\ FLt(x, Dec(100, 1))

\* Line 88.
DeltaVInRange(x) == FLe(Dec(93, 1), x) /\ FLe(x, Dec(100, 1))

\* q + r/den rounded to an integer, ties to even.
HalfEven(q, r, den) ==
    IF 2 * r > den \/ (2 * r = den /\ q % 2 = 1) THEN q + 1 ELSE q

Fixed(n) == [k |-> "fixed", m |-> n, e |-> 4]

\* format(x, ".4f") as the integer number of ten-thousandths it prints;
\* inf and nan print as themselves, and a value too large for the model checker's
\* integers is kept as the float.
Fixed4(x) ==
    IF ~IsNum(x) \/ x.e + Prec > 16 THEN x
    ELSE IF x.e >= 0 THEN Fixed(x.m * Pow2(x.e) * 10000)
    ELSE IF -x.e > 29 THEN Fixed(0)
    ELSE Fixed(Sgn(x.m) * HalfEven((Abs(x.m) * 10000) \div Pow2(-x.e),
                                   (Abs(x.m) * 10000) % Pow2(-x.e), Pow2(-x.e)))

---------------------------------------------------------------------------
(* main() as a state machine                                               *)

VARIABLES
    pc,                       \* the statement main() is at
    payload_mass, specific_impulse, launch_latitude, orbit_altitude,
    structural_fraction, delta_v_budget,
    v_orbital, v_rotation, mass_ratio, ve,
    total_mass_result, max_structural_fraction,
    notes,                    \* the two values printed under "Notes"
    exception,                \* the exception that ended the run, or "none"
    inp,                      \* the line last read by input()
    ret,                      \* what get_float_input last returned
    prompts,                  \* the calls of input() so far
    reprompts,                \* rejected delta-v entries so far
    calls,                    \* the calls of calculate_total_mass so far
    lib                       \* the last direct call of a function (SpecCore)

vars == <<pc, payload_mass, specific_impulse, launch_latitude, orbit_altitude,
          structural_fraction, delta_v_budget, v_orbital, v_rotation,
          mass_ratio, ve, total_mass_result, max_structural_fraction, notes,
          exception, inp, ret, prompts, reprompts, calls, lib>>

inputs == <<payload_mass, specific_impulse, launch_latitude, orbit_altitude,
            structural_fraction, delta_v_budget>>
steps == <<v_orbital, v_rotation, mass_ratio, ve>>
sizing == <<total_mass_result, max_structural_fraction, calls>>

\* The lines typed at each prompt.
PayloadEntries == {<<>>, <<"a", "b", "c">>, <<"2", ".", "5">>, <<"-", "1">>}
IspEntries ==
    {<<>>, <<"0">>, <<"1">>, <<"2", "8", "0">>, <<"4", "5", "0">>,
     <<"-", "3", "5", "0">>}
LatitudeEntries == {<<>>, <<"0">>, <<"i", "n", "f">>}
AltitudeEntries ==
    {<<>>, <<"-", "6", "3", "7", "1", "0", "0", "0">>,
     <<"-", "7", "0", "0", "0", "0", "0", "0">>}
StructuralEntries == {<<>>, <<" ">>, <<"0", ".", "0", "5">>, <<"-", "0", ".", "5">>}
DeltaVEntries ==
    {<<>>, <<"x">>, <<"9", ".", "3">>, <<"1", "0">>, <<"9", ".", "2", "9">>,
     <<"1", "0", ".", "0", "1">>, <<"n", "a", "n">>}

NoCall == [fn |-> "none"]

\* Nothing has been read, computed or printed.
Fresh ==
    /\ payload_mass = Unset /\ specific_impulse = Unset
    /\ launch_latitude = Unset /\ orbit_altitude = Unset
    /\ structural_fraction = Unset /\ delta_v_budget = Unset
    /\ v_orbital = Unset /\ v_rotation = Unset
    /\ mass_ratio = Unset /\ ve = Unset
    /\ total_mass_result = Unset /\ max_structural_fraction = Unset
    /\ notes = Unset
    /\ exception = "none"
    /\ inp = <<>> /\ ret = Unset /\ prompts = 0
    /\ reprompts = 0
    /\ calls = <<>>
    /\ lib = NoCall

Init == pc = "payload" /\ Fresh

\* get_float_input read the line and returned v.
Read(line, v) == inp' = line /\ ret' = v /\ prompts' = prompts + 1

\* Line 79.
PromptPayload ==
    /\ pc = "payload"
    /\ \E line \in PayloadEntries :
          Read(line, get_float_input(line, default_payload))
    /\ payload_mass' = ret'
    /\ pc' = "specific_impulse"
    /\ UNCHANGED <<specific_impulse, launch_latitude, orbit_altitude,
                   structural_fraction, delta_v_budget, steps, sizing, notes,
                   exception, reprompts, lib>>

\* Line 80.
PromptSpecificImpulse ==
    /\ pc = "specific_impulse"
    /\ \E line \in IspEntries :
          Read(line, get_float_input(line, default_specific_impulse))
    /\ specific_impulse' = ret'
    /\ pc' = "launch_latitude"
    /\ UNCHANGED <<payload_mass, launch_latitude, orbit_altitude,
                   structural_fraction, delta_v_budget, steps, sizing, notes,
                   exception, reprompts, lib>>

\* Line 81.
PromptLatitude ==
    /\ pc = "launch_latitude"
    /\ \E line \in LatitudeEntries :
          Read(line, get_float_input(line, default_launch_latitude))
    /\ launch_latitude' = ret'
    /\ pc' = "orbit_altitude"
    /\ UNCHANGED <<payload_mass, specific_impulse, orbit_altitude,
                   structural_fraction, delta_v_budget, steps, sizing, notes,
                   exception, reprompts, lib>>

\* Line 82.
PromptAltitude ==
    /\ pc = "orbit_altitude"
    /\ \E line \in AltitudeEntries :
          Read(line, get_float_input(line, default_orbit_altitude))
    /\ orbit_altitude' = ret'
    /\ pc' = "structural_fraction"
    /\ UNCHANGED <<payload_mass, specific_impulse, launch_latitude,
                   structural_fraction, delta_v_budget, steps, sizing, notes,
                   exception, reprompts, lib>>

\* Line 83.
PromptStructuralFraction ==
    /\ pc = "structural_fraction"
    /\ \E line \in StructuralEntries :
          Read(line, get_float_input(line, default_structural_fraction))
    /\ structural_fraction' = ret'
    /\ pc' = "delta_v_budget"
    /\ UNCHANGED <<payload_mass, specific_impulse, launch_latitude,
                   orbit_altitude, delta_v_budget, steps, sizing, notes,
                   exception, reprompts, lib>>

\* Lines 86-92: one pass of the loop.  A rejected entry stays in
\* delta_v_budget and the loop prompts again.
PromptDeltaV ==
    /\ pc = "delta_v_budget"
    /\ \E line \in DeltaVEntries :
          Read(line, get_float_input(line, FDiv(default_delta_v_budget,
                                                FromInt(1000))))
    /\ IF DeltaVInRange(ret')
       THEN /\ delta_v_budget' = FMul(ret', FromInt(1000))
            /\ pc' = "orbital_velocity"
            /\ UNCHANGED reprompts
       ELSE /\ reprompts < MaxReprompts
            /\ delta_v_budget' = ret'
            /\ pc' = "delta_v_budget"
            /\ reprompts' = reprompts + 1
    /\ UNCHANGED <<payload_mass, specific_impulse, launch_latitude,
                   orbit_altitude, structural_fraction, steps, sizing, notes,
                   exception, lib>>

\* The step's call returned or raised: main goes on to `next` or ends.
Outcome(r, next) ==
    /\ exception' = r.exc
    /\ pc' = IF r.exc = "none" THEN next ELSE "raised"

\* Lines 97-98.
StepOrbitalVelocity ==
    /\ pc = "orbital_velocity"
    /\ Outcome(calculate_orbital_velocity(orbit_altitude), "rotational_boost")
    /\ v_orbital' = IF exception' = "none"
                    THEN calculate_orbital_velocity(orbit_altitude).val
                    ELSE v_orbital
    /\ UNCHANGED <<inputs, v_rotation, mass_ratio, ve, sizing, notes, inp,
                   ret, prompts, reprompts, lib>>

\* Lines 101-105.
StepRotationalBoost ==
    /\ pc = "rotational_boost"
    /\ Outcome(calculate_rotational_boost(launch_latitude), "mass_ratio")
    /\ v_rotation' = IF exception' = "none"
                     THEN calculate_rotational_boost(launch_latitude).val
                     ELSE v_rotation
    /\ UNCHANGED <<inputs, v_orbital, mass_ratio, ve, sizing, notes, inp,
                   ret, prompts, reprompts, lib>>

MassRatioAssigned(r) ==
    /\ Outcome(r, "total_mass")
    /\ mass_ratio' = IF r.exc = "none" THEN r.val.mass_ratio ELSE mass_ratio
    /\ ve' = IF r.exc = "none" THEN r.val.ve ELSE ve

\* Lines 108-110.
StepMassRatio ==
    /\ pc = "mass_ratio"
    /\ MassRatioAssigned(calculate_mass_ratio(delta_v_budget, specific_impulse))
    /\ UNCHANGED <<inputs, v_orbital, v_rotation, sizing, notes, inp,
                   ret, prompts, reprompts, lib>>

\* One call of calculate_total_mass, as the log keeps it.
Call(m_payload, mr, sf) ==
    [m_payload |-> m_payload, mass_ratio |-> mr, structural_fraction |-> sf,
     result |-> calculate_total_mass(m_payload, mr, sf)]

\* total_mass_result = calculate_total_mass(...), then the test for None
\* that follows the call.
TotalMassAssigned(c, ifNone) ==
    /\ calls' = Append(calls, c)
    /\ exception' = c.result.exc
    /\ total_mass_result' = IF c.result.exc = "none" THEN c.result.val
                            ELSE total_mass_result
    /\ pc' = IF c.result.exc # "none" THEN "raised"
             ELSE IF c.result.val.tag = "None" THEN ifNone
             ELSE "report"

\* Line 113.
StepTotalMass ==
    /\ pc = "total_mass"
    /\ TotalMassAssigned(Call(payload_mass, mass_ratio, structural_fraction),
                         "adjust")
    /\ UNCHANGED <<inputs, steps, max_structural_fraction, notes, inp,
                   ret, prompts, reprompts, lib>>

\* Lines 118-126.
Adjusted(f) ==
    IF f.exc # "none"
    THEN /\ exception' = f.exc
         /\ pc' = "raised"
         /\ UNCHANGED <<structural_fraction, sizing>>
    ELSE /\ max_structural_fraction' = f.val
         /\ structural_fraction' = f.val
         /\ TotalMassAssigned(Call(payload_mass, mass_ratio, f.val),
                              "still_infeasible")

\* Lines 116-126: the first result was None.
AutoCorrect ==
    /\ pc = "adjust"
    /\ Adjusted(find_max_structural_fraction(mass_ratio))
    /\ UNCHANGED <<payload_mass, specific_impulse, launch_latitude,
                   orbit_altitude, delta_v_budget, steps, notes, inp,
                   ret, prompts, reprompts, lib>>

\* Lines 129-149: the results, the summary and the notes are printed.
Report ==
    /\ pc = "report"
    /\ notes' = [original |-> default_structural_fraction,
                 adjusted |-> Fixed4(structural_fraction)]
    /\ pc' = "done"
    /\ UNCHANGED <<inputs, steps, sizing, exception, inp, ret, prompts,
                   reprompts, lib>>

Next ==
    \/ PromptPayload
    \/ PromptSpecificImpulse
    \/ PromptLatitude
    \/ PromptAltitude
    \/ PromptStructuralFraction
    \/ PromptDeltaV
    \/ StepOrbitalVelocity
    \/ StepRotationalBoost
    \/ StepMassRatio
    \/ StepTotalMass
    \/ AutoCorrect
    \/ Report

Spec == Init /\ [][Next]_vars

---------------------------------------------------------------------------
(* The functions called directly, without main()'s prompts                 *)

CorePayloads == {One, Dec(25, 1), Zero, FNeg(One)}
CoreMassRatios == {FromInt(2), One, FromInt(10), FromInt(20), Dec(5, 1)}
CoreStructuralFractions ==
    {Dec(5, 2), Dec(10, 2), Dec(5, 1), One, Zero, FNeg(Dec(5, 1))}
CoreDeltaVs ==
    {FromInt(9300), FromInt(9500), FromInt(10000), FromInt(5000),
     FromInt(12000), Zero, FromInt(-100)}
CoreSpecificImpulses == {Dec(3500, 1), FromInt(450), Zero}

InitCore == pc = "library" /\ Fresh

LibTotalMass ==
    /\ pc = "library"
    /\ \E m_payload \in CorePayloads, mr \in CoreMassRatios,
          sf \in CoreStructuralFractions :
          lib' = [fn |-> "calculate_total_mass", m_payload |-> m_payload,
                  mass_ratio |-> mr, structural_fraction |-> sf,
                  result |-> calculate_total_mass(m_payload, mr, sf)]
    /\ UNCHANGED <<pc, inputs, steps, sizing, notes, exception, inp, ret,
                   prompts, reprompts>>

LibMassRatio ==
    /\ pc = "library"
    /\ \E delta_v \in CoreDeltaVs, isp \in CoreSpecificImpulses :
          lib' = [fn |-> "calculate_mass_ratio", delta_v |-> delta_v,
                  specific_impulse |-> isp,
                  result |-> calculate_mass_ratio(delta_v, isp)]
    /\ UNCHANGED <<pc, inputs, steps, sizing, notes, exception, inp, ret,
                   prompts, reprompts>>

NextCore ==
    \/ LibTotalMass
    \/ LibMassRatio

SpecCore == InitCore /\ [][NextCore]_vars

---------------------------------------------------------------------------
(* Properties                                                              *)

\* A call of calculate_total_mass that returned a triple, or None.
Returned(c) == c.result.exc = "none" /\ c.result.val.tag = "tuple"
Infeasible(c) == c.result.exc = "none" /\ c.result.val.tag = "None"

\* The denominator of a call, written out from its arguments.
DOf(c) == FSub(One, FMul(c.mass_ratio, c.structural_fraction))

\* The payload reconstructed from a triple.
Reconstructed(t) == FSub(FSub(t.m0, t.m_structure), t.m_fuel)

\* a is within half of b's magnitude of b.
WithinHalf(a, b) == FLe(FAbs(FSub(a, b)), FDiv(FAbs(b), FromInt(2)))

NonNegative(x) == FLe(Zero, x)

AfterLoop ==
    {"orbital_velocity", "rotational_boost", "mass_ratio", "total_mass",
     "adjust", "report", "done", "still_infeasible", "raised"}

\* C1: every triple calculate_total_mass returns to main closes the mass
\* budget: the payload reconstructed as m0 - m_structure - m_fuel is the
\* payload the call was given.  Stated with the coarsest tolerance that
\* still means anything (half the payload), so that only a reconstruction
\* that lost the payload altogether violates it.
C1_BudgetCloses ==
    \A i \in DOMAIN calls :
        Returned(calls[i]) =>
            WithinHalf(Reconstructed(calls[i].result.val), calls[i].m_payload)

\* C2: calculate_total_mass returns None exactly when D <= 0, and for D > 0
\* returns m0 = mass_ratio*m_payload/D, m_structure = structural_fraction*m0
\* and m_fuel = m0 - m_structure - m_payload; structural_fraction 0.05 with
\* mass_ratio 2 is feasible with m0 = 2*m_payload/D.
TotalMassAgrees(c, D) ==
    /\ c.result.exc = "none"
    /\ Infeasible(c) <=> FLe(D, Zero)
    /\ ~FLe(D, Zero) =>
          /\ Returned(c)
          /\ c.result.val.m0 = FDiv(FMul(c.mass_ratio, c.m_payload), D)
          /\ c.result.val.m_structure =
                FMul(c.structural_fraction, c.result.val.m0)
          /\ c.result.val.m_fuel =
                FSub(FSub(c.result.val.m0, c.result.val.m_structure),
                     c.m_payload)
    /\ (c.structural_fraction = Dec(5, 2) /\ c.mass_ratio = FromInt(2)) =>
          /\ FLt(Zero, D)
          /\ WithinHalf(D, Dec(9, 1))
          /\ Returned(c)
          /\ c.result.val.m0 = FDiv(FMul(FromInt(2), c.m_payload), D)

C2_TotalMassFormula ==
    lib.fn = "calculate_total_mass" => TotalMassAgrees(lib, DOf(lib))

C2_ScenarioC ==
    /\ lib.fn = "calculate_total_mass"
    /\ lib.structural_fraction = Dec(5, 2)
    /\ lib.mass_ratio = FromInt(2)
    /\ lib.m_payload = One
    /\ Returned(lib)

\* C3: in every reported result the total, structural and fuel masses are
\* all >= 0.
C3_MassesNonNegative ==
    pc = "done" =>
        /\ NonNegative(total_mass_result.m0)
        /\ NonNegative(total_mass_result.m_structure)
        /\ NonNegative(total_mass_result.m_fuel)

\* C4: main calls calculate_total_mass at most twice; the first call has the
\* entered structural fraction, a second call happens only after the first
\* returned None and has structural_fraction = 1/mass_ratio; if the second
\* is None too the run ends "still infeasible" with nothing reported and
\* nothing left to do; after a feasible first call there is no correction.
C4_AtMostOneCorrection ==
    /\ Len(calls) <= 2
    /\ \A i \in DOMAIN calls :
          /\ calls[i].m_payload = payload_mass
          /\ calls[i].mass_ratio = mass_ratio
    /\ Len(calls) = 1 =>
          /\ calls[1].structural_fraction = structural_fraction
          /\ max_structural_fraction = Unset
          /\ Infeasible(calls[1]) <=> pc = "adjust"
    /\ Len(calls) = 2 =>
          /\ Infeasible(calls[1])
          /\ calls[2].structural_fraction = FDiv(One, mass_ratio)
          /\ Infeasible(calls[2]) <=> pc = "still_infeasible"
    /\ pc = "still_infeasible" =>
          /\ Len(calls) = 2
          /\ notes = Unset
          /\ ~ENABLED Next

C4_StillInfeasible ==
    /\ pc = "still_infeasible"
    /\ Len(calls) = 2
    /\ calls[2].structural_fraction = max_structural_fraction

\* C5 as stated: the recomputation with structural_fraction = 1/mass_ratio
\* has D exactly 0 and executes the division by it.
C5_RecomputeDividesByZero ==
    Len(calls) = 2 =>
        /\ IsZero(DOf(calls[2]))
        /\ calls[2].result.exc = "ZeroDivisionError"

\* C5, amended: the recomputation with structural_fraction = 1/mass_ratio
\* never divides by zero: when D is exactly 0 (or below) it returns None
\* before the division and the run ends "still infeasible", and the division
\* is executed only with a D that is not <= 0.
C5_RecomputeGuarded ==
    Len(calls) = 2 =>
        /\ calls[2].structural_fraction = FDiv(One, calls[2].mass_ratio)
        /\ calls[2].result.exc = "none"
        /\ FLe(DOf(calls[2]), Zero) =>
              Infeasible(calls[2]) /\ pc = "still_infeasible"
        /\ Returned(calls[2]) => ~FLe(DOf(calls[2]), Zero)

C5_ZeroDenominator ==
    /\ Len(calls) = 2
    /\ IsZero(DOf(calls[2]))
    /\ Infeasible(calls[2])

\* C6: no run ends in a raised exception.
C6_NoUnhandledError == exception = "none" /\ pc # "raised"

\* C7: the delta-v loop is left only on an entry x with 9.3 <= x <= 10.0,
\* endpoints included, and prompts again on any other entry, so that from
\* the loop's exit on delta_v_budget is within [9300, 10000]; a blank or
\* unparsable entry counts as 9.5 and is accepted.
C7_DeltaVLoop ==
    /\ pc \in AfterLoop =>
          /\ FLe(FromInt(9300), delta_v_budget)
          /\ FLe(delta_v_budget, FromInt(10000))
    /\ pc = "orbital_velocity" =>
          /\ FLe(FDiv(FromInt(93), FromInt(10)), ret) /\ FLe(ret, FromInt(10))
          /\ delta_v_budget = FMul(ret, FromInt(1000))
          /\ inp \in {<<>>, <<"x">>} => delta_v_budget = FromInt(9500)
          /\ inp = <<"9", ".", "3">> => delta_v_budget = FromInt(9300)
          /\ inp = <<"1", "0">> => delta_v_budget = FromInt(10000)
    /\ (pc = "delta_v_budget" /\ reprompts > 0) =>
          /\ ~(FLe(FDiv(FromInt(93), FromInt(10)), ret) /\ FLe(ret, FromInt(10)))
          /\ delta_v_budget = ret
          /\ inp \in {<<"9", ".", "2", "9">>, <<"1", "0", ".", "0", "1">>,
                      <<"n", "a", "n">>}

C7_EndpointAfterReprompt ==
    /\ pc = "orbital_velocity"
    /\ reprompts > 0
    /\ inp = <<"9", ".", "3">>
    /\ delta_v_budget = FromInt(9300)

\* C8: calculate_mass_ratio called directly with a delta-v outside
\* [9300, 10000] rejects it instead of computing a mass ratio.
C8_CoreRejectsOutOfRange ==
    (/\ lib.fn = "calculate_mass_ratio"
     /\ ~(FLe(FromInt(9300), lib.delta_v) /\ FLe(lib.delta_v, FromInt(10000))))
    => lib.result.exc # "none"

\* The number each entry of the model writes, for the entries float() accepts.
Written ==
    (<<"2", ".", "5">> :> FDiv(FromInt(5), FromInt(2))) @@
    (<<"-", "1">> :> FromInt(-1)) @@
    (<<"0">> :> Zero) @@
    (<<"1">> :> One) @@
    (<<"2", "8", "0">> :> FromInt(280)) @@
    (<<"4", "5", "0">> :> FromInt(450)) @@
    (<<"-", "3", "5", "0">> :> FromInt(-350)) @@
    (<<"i", "n", "f">> :> Inf(1)) @@
    (<<"-", "6", "3", "7", "1", "0", "0", "0">> :> FromInt(-6371000)) @@
    (<<"-", "7", "0", "0", "0", "0", "0", "0">> :> FromInt(-7000000)) @@
    (<<"0", ".", "0", "5">> :> FDiv(One, FromInt(20))) @@
    (<<"-", "0", ".", "5">> :> FDiv(FromInt(-1), FromInt(2))) @@
    (<<"9", ".", "3">> :> FDiv(FromInt(93), FromInt(10))) @@
    (<<"1", "0">> :> FromInt(10)) @@
    (<<"9", ".", "2", "9">> :> FDiv(FromInt(929), FromInt(100))) @@
    (<<"1", "0", ".", "0", "1">> :> FDiv(FromInt(1001), FromInt(100))) @@
    (<<"n", "a", "n">> :> NaN)

\* The default of the prompt answered last.
LastDefault ==
    CASE pc = "specific_impulse" -> FromInt(1)
      [] pc = "launch_latitude" -> FromInt(350)
      [] pc = "orbit_altitude" -> FromInt(45)
      [] pc = "structural_fraction" -> FromInt(200000)
      [] pc = "delta_v_budget" /\ reprompts = 0 -> FDiv(One, FromInt(10))
      [] OTHER -> FDiv(FromInt(19), FromInt(2))

\* C9: get_float_input returns the default for a blank or unparsable entry
\* and the number written otherwise, reads exactly one line per call, and
\* main goes on with the value returned.
C9_DefaultOrParsed ==
    /\ prompts > 0 =>
          ret = IF inp \in DOMAIN Written THEN Written[inp] ELSE LastDefault
    /\ pc = "payload" => prompts = 0
    /\ pc = "specific_impulse" => prompts = 1 /\ payload_mass = ret
    /\ pc = "launch_latitude" => prompts = 2 /\ specific_impulse = ret
    /\ pc = "orbit_altitude" => prompts = 3 /\ launch_latitude = ret
    /\ pc = "structural_fraction" => prompts = 4 /\ orbit_altitude = ret
    /\ pc = "delta_v_budget" =>
          /\ prompts = 5 + reprompts
          /\ reprompts = 0 => structural_fraction = ret
    /\ pc \in AfterLoop => prompts = 6 + reprompts
    /\ pc = "orbital_velocity" => delta_v_budget = FMul(ret, FromInt(1000))

C9_BlankAndUnparsable ==
    /\ pc = "delta_v_budget"
    /\ reprompts = 0
    /\ inp = <<" ">>
    /\ structural_fraction = FDiv(One, FromInt(10))
    /\ payload_mass = One
    /\ specific_impulse = FromInt(450)

\* C10: the report's "Original Structural Fraction entered" is the value
\* given at the prompt, and the adjusted value printed differs from it only
\* if the first call of calculate_total_mass returned None.
C10_NotesShowEntered ==
    pc = "done" =>
        /\ notes.original = calls[1].structural_fraction
        /\ notes.adjusted # Fixed4(calls[1].structural_fraction) =>
              Infeasible(calls[1])

===========================================================================
